---- MODULE Spec2Model ----
(***************************************************************************)
(* Model of the UWorld question-id extractor add-on (src/__init__.py):     *)
(* the tag pattern matcher, extract_ids, the answered-id store kept in a   *)
(* JSON file with rotating backups, and the dialog handler that adds ids.  *)
(*                                                                         *)
(* A text is a sequence of characters; a character is a one-element        *)
(* string, except "sup2", which stands for U+00B2 (superscript two): a     *)
(* character for which str.isdigit() is true, that int() refuses and that  *)
(* the regular expression class \d does not match.                         *)
(***************************************************************************)
EXTENDS Integers, Sequences, FiniteSets, TLC

VARIABLES
    cfgFile,    \* the state file uworld_ids_config.json
    backups,    \* the backup directory: file name (a time stamp) -> content
    clock,      \* datetime.now(), in whole seconds
    hashseed,   \* the iteration order of a Python set of strings (per process)
    col,        \* the collection: card id -> its note's tags, or a failure
    tagstr,     \* a tag string handed to the pattern matcher
    nops,       \* the number of operations run so far
    out         \* what the last operation returned, raised and displayed

vars == <<cfgFile, backups, clock, hashseed, col, tagstr, nops, out>>

-----------------------------------------------------------------------------
(* Bounds of the model.                                                    *)

\* the largest number of intermediate segments of a generated tag
MaxSegs == 3
\* the largest number of card ids handed to extract_ids
MaxCards == 2
\* the largest number of comma separated tokens typed into the dialog
MaxTokens == 2
\* the number of store operations of one behaviour of the store
MaxOps == 2
\* the number of saves of one behaviour of the backup rotation
MaxSaves == 12
\* the last second of the clock
MaxClock == 13
\* the number of intermediate segments of the long generated tags
ManySegs == 10

-----------------------------------------------------------------------------
(* Characters and Python's string predicates.                              *)

AsciiDigits == {"0", "1", "2", "3", "4", "7"}

\* int() of one ASCII digit
DigitVal(c) ==
    CASE c = "0" -> 0 [] c = "1" -> 1 [] c = "2" -> 2 [] c = "3" -> 3
      [] c = "4" -> 4 [] c = "7" -> 7 [] OTHER -> 0

\* the class \d of the module re
IsReDigit(c) == c \in AsciiDigits

\* the class \s of the module re, and what str.strip() removes
IsSpace(c) == c = " "

\* a character str.isdigit() accepts
IsStrDigitChar(c) == c \in AsciiDigits \union {"sup2"}

\* str.isdigit(): not empty and every character a digit
isdigit(s) == Len(s) > 0 /\ \A i \in 1..Len(s) : IsStrDigitChar(s[i])

\* whether int(s) succeeds on a text for which isdigit(s) holds
IntParses(s) == Len(s) > 0 /\ \A i \in 1..Len(s) : s[i] \in AsciiDigits

RECURSIVE int(_)
\* int(s) of a text of ASCII digits
int(s) ==
    IF Len(s) = 0 THEN 0
    ELSE 10 * int(SubSeq(s, 1, Len(s) - 1)) + DigitVal(s[Len(s)])

RECURSIVE LStrip(_)
LStrip(s) == IF Len(s) > 0 /\ IsSpace(s[1]) THEN LStrip(Tail(s)) ELSE s

RECURSIVE RStrip(_)
RStrip(s) ==
    IF Len(s) > 0 /\ IsSpace(s[Len(s)]) THEN RStrip(SubSeq(s, 1, Len(s) - 1)) ELSE s

\* str.strip()
strip(s) == RStrip(LStrip(s))

\* the order of two texts as Python compares them (shorter prefix first);
\* used only to fix an iteration order among texts
RECURSIVE StrLess(_, _)
CharRank(c) ==
    CASE c = " " -> 0 [] c = "#" -> 1 [] c = "," -> 2 [] c \in AsciiDigits -> 3 + DigitVal(c)
      [] c = ":" -> 11 [] c = "sup2" -> 40 [] OTHER -> 20
StrLess(a, b) ==
    IF Len(b) = 0 THEN FALSE
    ELSE IF Len(a) = 0 THEN TRUE
    ELSE IF a[1] # b[1] THEN CharRank(a[1]) < CharRank(b[1])
    ELSE StrLess(Tail(a), Tail(b))

\* some texts
T1 == <<"1">>
T2 == <<"2">>
T3 == <<"3">>
T7 == <<"7">>
T10 == <<"1", "0">>
T02 == <<"0", "2">>
T12a == <<"1", "2", "a">>
TSup == <<"sup2">>

-----------------------------------------------------------------------------
(* The tag patterns.                                                       *)

Categories == {"step1", "step2", "step3"}

PfxAK(n) == <<"#", "A", "K", "_", "S", "t", "e", "p", n, "_", "v", "1">>
PfxUWorld == <<":", ":", "#", "U", "W", "o", "r", "l", "d", ":", ":">>
PfxStep == <<"S", "t", "e", "p", ":", ":">>

\* #AK_Step<n>_v<v>::#UWorld::
Prefix(n, v) == PfxAK(n) \o <<v>> \o PfxUWorld

\* a pattern is its literal part and whether (?:[^:\s]+::)* follows it;
\* every pattern ends with the group (\d+)
STEP_PATTERNS ==
    [c \in Categories |->
        CASE c = "step1" -> << [lit |-> Prefix("1", "2") \o PfxStep, segs |-> FALSE],
                               [lit |-> Prefix("1", "1"), segs |-> TRUE] >>
          [] c = "step2" -> << [lit |-> Prefix("2", "2") \o PfxStep, segs |-> FALSE],
                               [lit |-> Prefix("2", "1"), segs |-> TRUE] >>
          [] c = "step3" -> << [lit |-> Prefix("3", "2"), segs |-> TRUE],
                               [lit |-> Prefix("3", "1"), segs |-> TRUE] >>]

-----------------------------------------------------------------------------
(* Matching one compiled pattern as re does: the literal, then as many     *)
(* iterations of [^:\s]+:: as possible, giving one back at a time while    *)
(* (\d+) finds no digit, then the longest run of digits.                   *)

NoMatch == [ok |-> FALSE, grp |-> <<>>, end |-> 0]

HasLitAt(s, i, lit) ==
    /\ i + Len(lit) - 1 <= Len(s)
    /\ s[i] = lit[1]
    /\ SubSeq(s, i, i + Len(lit) - 1) = lit

RECURSIVE RunEnd(_, _)
\* the first position from j on that [^:\s] does not match
RunEnd(s, j) ==
    IF j > Len(s) \/ s[j] = ":" \/ IsSpace(s[j]) THEN j ELSE RunEnd(s, j + 1)

\* the position after one iteration of [^:\s]+:: at j, or 0 when it fails
SegEnd(s, j) ==
    LET e == RunEnd(s, j)
    IN  IF e > j /\ e + 1 <= Len(s) /\ s[e] = ":" /\ s[e + 1] = ":" THEN e + 2 ELSE 0

RECURSIVE DigitsEnd(_, _)
\* the first position from j on that \d does not match
DigitsEnd(s, j) ==
    IF j > Len(s) \/ ~IsReDigit(s[j]) THEN j ELSE DigitsEnd(s, j + 1)

\* the group (\d+) at j
GroupAt(s, j) ==
    LET e == DigitsEnd(s, j)
    IN  IF e > j THEN [ok |-> TRUE, grp |-> SubSeq(s, j, e - 1), end |-> e] ELSE NoMatch

RECURSIVE MatchRestLazy(_, _, _)
\* MatchRest with the segments matched by a lazy (?:...)*?: the first run of
\* digits met is the one captured
MatchRestLazy(segs, s, j) ==
    IF GroupAt(s, j).ok THEN GroupAt(s, j)
    ELSE IF segs /\ SegEnd(s, j) # 0 THEN MatchRestLazy(segs, s, SegEnd(s, j))
    ELSE NoMatch

RECURSIVE MatchRest(_, _, _)
\* what follows the literal, from position j
MatchRest(segs, s, j) ==
    IF segs /\ SegEnd(s, j) # 0
    THEN LET more == MatchRest(segs, s, SegEnd(s, j))
         IN  IF more.ok THEN more ELSE GroupAt(s, j)
    ELSE GroupAt(s, j)

\* a match of the pattern that starts at position i
MatchAt(pat, s, i) ==
    IF HasLitAt(s, i, pat.lit) THEN MatchRest(pat.segs, s, i + Len(pat.lit)) ELSE NoMatch

RECURSIVE FindFrom(_, _, _)
FindFrom(pat, s, i) ==
    IF i > Len(s) THEN {}
    ELSE LET m == MatchAt(pat, s, i)
         IN  IF m.ok THEN {m.grp} \union FindFrom(pat, s, m.end)
             ELSE FindFrom(pat, s, i + 1)

\* {m.group(1) for m in pat.finditer(tags)}
finditer(pat, tags) == FindFrom(pat, tags, 1)

\* the identifiers the patterns of one category find in a tag string
CategoryIds(c, tags) ==
    UNION {finditer(STEP_PATTERNS[c][k], tags) : k \in DOMAIN STEP_PATTERNS[c]}

-----------------------------------------------------------------------------
(* JSON values, as json.load returns them and json.dump writes them.       *)

JNull == [t |-> "null"]
JBool(b) == [t |-> "bool", b |-> b]
JNum(n) == [t |-> "num", n |-> n]
JStr(s) == [t |-> "str", s |-> s]
JList(items) == [t |-> "list", items |-> items]
JDict(d) == [t |-> "dict", d |-> d]

\* bool(v), and the test of "if not v" and "v or {}"
bool(v) ==
    CASE v.t = "null" -> FALSE
      [] v.t = "bool" -> v.b
      [] v.t = "num"  -> v.n # 0
      [] v.t = "str"  -> Len(v.s) > 0
      [] v.t = "list" -> Len(v.items) > 0
      [] v.t = "dict" -> DOMAIN v.d # {}

RECURSIVE NatStr(_)
\* str(n) of a natural number whose digits are in AsciiDigits
NatStr(n) ==
    LET d == CHOOSE c \in AsciiDigits \union {"x"} :
                 IF \E a \in AsciiDigits : DigitVal(a) = n % 10
                 THEN c \in AsciiDigits /\ DigitVal(c) = n % 10 ELSE c = "x"
    IN  IF n < 10 THEN <<d>> ELSE NatStr(n \div 10) \o <<d>>

\* str(item)
str(v) ==
    CASE v.t = "str"  -> v.s
      [] v.t = "num"  -> NatStr(v.n)
      [] v.t = "bool" -> IF v.b THEN <<"T", "r", "u", "e">> ELSE <<"F", "a", "l", "s", "e">>
      [] v.t = "null" -> <<"N", "o", "n", "e">>
      [] v.t = "list" -> <<"[", "]">>
      [] v.t = "dict" -> <<"{", "}">>

\* str(item) of the items "for item in raw" visits, when raw can be iterated:
\* the elements of a list, the characters of a string, the keys of a dict
ItemTexts(raw) ==
    CASE raw.t = "list" -> {str(raw.items[i]) : i \in DOMAIN raw.items}
      [] raw.t = "str"  -> {<<raw.s[i]>> : i \in DOMAIN raw.s}
      [] raw.t = "dict" -> {<<k>> : k \in DOMAIN raw.d}
      [] OTHER -> {}

\* whether "for item in raw" raises TypeError
NotIterable(raw) == raw.t \in {"num", "bool", "null"}

-----------------------------------------------------------------------------
(* sorted(list(set(ids)), key=int): ids of the same int value keep the     *)
(* order in which the set yields them, which the hash seed decides. The    *)
(* inputs of the model hold at most two ids of the same value ("2", "02"), *)
(* and the two seeds give their two orders.                                *)

\* whether a comes before b in the iteration of a set, under the seed
SetOrder(a, b, seed) == IF seed = 0 THEN StrLess(a, b) ELSE StrLess(b, a)

SortedBefore(a, b, seed) ==
    \/ int(a) < int(b)
    \/ int(a) = int(b) /\ SetOrder(a, b, seed)

RECURSIVE sortedNoKey(_, _)
\* sorted without key=int: the order of the texts
sortedNoKey(S, seed) ==
    IF S = {} THEN <<>>
    ELSE LET first == CHOOSE a \in S : \A b \in S \ {a} : StrLess(a, b)
         IN  <<first>> \o sortedNoKey(S \ {first}, seed)

RECURSIVE sorted(_, _)
\* the set S of texts of ASCII digits as a list in ascending order of int
sorted(S, seed) ==
    IF S = {} THEN <<>>
    ELSE LET first == CHOOSE a \in S : \A b \in S \ {a} : SortedBefore(a, b, seed)
         IN  <<first>> \o sorted(S \ {first}, seed)

Range(q) == {q[i] : i \in DOMAIN q}

Raised == [raised |-> TRUE, val |-> <<>>]
Returned(v) == [raised |-> FALSE, val |-> v]

\* _normalize_ids_list(raw): the list, or the exception of iterating what
\* cannot be iterated (TypeError) or of int() on what is no number (ValueError)
_normalize_ids_list(raw, seed) ==
    IF ~bool(raw) THEN Returned(<<>>)
    ELSE IF NotIterable(raw) THEN Raised
    ELSE LET ids == {strip(x) : x \in {y \in ItemTexts(raw) : isdigit(strip(y))}}
         IN  IF \E x \in ids : ~IntParses(x) THEN Raised
             ELSE Returned(sorted(ids, seed))

\* a list of texts as the JSON list of strings
IdList(q) == JList([i \in DOMAIN q |-> JStr(q[i])])

-----------------------------------------------------------------------------
(* The state file and the store read from it.                              *)

\* the file does not exist
Missing == [k |-> "missing"]
\* the file exists and json.load fails on it (empty, truncated, not JSON)
Corrupt == [k |-> "corrupt"]
\* the file holds the JSON document v
Json(v) == [k |-> "json", v |-> v]

EmptyDict == JDict(<<>>)

\* cfg[key] = v
DictSet(cfg, key, v) ==
    JDict([k \in DOMAIN cfg.d \union {key} |-> IF k = key THEN v ELSE cfg.d[k]])

\* cfg.get(key, default)
DictGet(cfg, key, default) == IF key \in DOMAIN cfg.d THEN cfg.d[key] ELSE default

\* _load_raw_config(): {} when the file is missing or json.load fails
_load_raw_config(file) == IF file.k = "json" THEN file.v ELSE EmptyDict

\* get_config(): the normalized dict, or the exception raised by using a
\* document that is no dict as one, or by _normalize_ids_list
get_config(file, seed) ==
    LET raw == _load_raw_config(file)
        cfg == IF bool(raw) THEN raw ELSE EmptyDict
    IN  IF cfg.t # "dict" THEN Raised
        ELSE LET c1 == IF "answered_ids" \notin DOMAIN cfg.d
                       THEN DictSet(cfg, "answered_ids", JList(<<>>)) ELSE cfg
                 c2 == IF "filter_used" \notin DOMAIN c1.d
                       THEN DictSet(c1, "filter_used", JBool(TRUE)) ELSE c1
                 ids == _normalize_ids_list(DictGet(c2, "answered_ids", JList(<<>>)), seed)
             IN  IF ids.raised THEN Raised
                 ELSE Returned(DictSet(DictSet(c2, "answered_ids", IdList(ids.val)),
                                       "filter_used",
                                       JBool(bool(DictGet(c2, "filter_used", JBool(TRUE))))))

\* get_answered_ids()
get_answered_ids(file, seed) ==
    LET cfg == get_config(file, seed)
    IN  IF cfg.raised THEN Raised
        ELSE _normalize_ids_list(DictGet(cfg.val, "answered_ids", JList(<<>>)), seed)

\* get_filter_used()
get_filter_used(file, seed) ==
    LET cfg == get_config(file, seed)
    IN  IF cfg.raised THEN Raised
        ELSE Returned(bool(DictGet(cfg.val, "filter_used", JBool(TRUE))))

-----------------------------------------------------------------------------
(* Saving: the backup of the previous version, the rotation, the write.    *)
(* The environment decides how the copy and the write end:                 *)
(*   bk: "ok", "fail" (makedirs or copy2 raises before the copy exists),   *)
(*       "partial" (copy2 raises with the copy begun);                     *)
(*   wr: "ok", "open_fails" (open raises, the file is untouched),          *)
(*       "dump_fails" (the file is truncated by open and the write raises) *)
(*   failrm: the backups os.remove fails to delete.                        *)

\* the number of backups the rotation keeps
MaxBackups == 10

BackupOutcomes == {"ok", "fail", "partial"}
WriteOutcomes == {"ok", "open_fails", "dump_fails"}

\* WithBackup keeping an entry that has the name already
WithBackupKeep(bks, name, content) ==
    [n \in DOMAIN bks \union {name} |-> IF n \in DOMAIN bks THEN bks[n] ELSE content]

\* the backup directory with the entry name holding content
WithBackup(bks, name, content) ==
    [n \in DOMAIN bks \union {name} |-> IF n = name THEN content ELSE bks[n]]

\* all_backups[:excess] after all_backups.sort()
ToRemove(names) ==
    IF Cardinality(names) > MaxBackups
    THEN {n \in names : Cardinality({m \in names : m < n}) < Cardinality(names) - MaxBackups}
    ELSE {}

\* the names the rotation of this save tries to delete
RotationOf(file, bks, now, bk) ==
    IF file.k = "missing" \/ bk # "ok" THEN {} ELSE ToRemove(DOMAIN bks \union {now})

\* _backup_config_file_if_exists(): the backup directory afterwards
_backup_config_file_if_exists(file, bks, now, bk, failrm) ==
    IF file.k = "missing" THEN bks
    ELSE IF bk = "fail" THEN bks
    ELSE IF bk = "partial" THEN WithBackup(bks, now, Corrupt)
    ELSE LET copied == WithBackup(bks, now, file)
             gone == ToRemove(DOMAIN copied) \ failrm
         IN  [n \in DOMAIN copied \ gone |-> copied[n]]

\* _save_raw_config with the exceptions of the backup reaching it: a failed
\* copy ends the save before the write
_save_raw_configAbort(cfg, file, bks, now, bk, failrm, wr) ==
    [file    |-> CASE file.k # "missing" /\ bk # "ok" -> file
                   [] wr = "ok" -> Json(cfg)
                   [] wr = "open_fails" -> file
                   [] wr = "dump_fails" -> Corrupt,
     backups |-> _backup_config_file_if_exists(file, bks, now, bk, failrm),
     raised  |-> FALSE,
     printed |-> wr # "ok" \/ (file.k # "missing" /\ bk # "ok")]

\* _save_raw_config(cfg): the file and the backups afterwards; every
\* exception is caught and printed, nothing is raised to the caller
_save_raw_config(cfg, file, bks, now, bk, failrm, wr) ==
    [file    |-> CASE wr = "ok" -> Json(cfg)
                   [] wr = "open_fails" -> file
                   [] wr = "dump_fails" -> Corrupt,
     backups |-> _backup_config_file_if_exists(file, bks, now, bk, failrm),
     raised  |-> FALSE,
     printed |-> wr # "ok"]

\* what an operation that raises before it saves leaves behind
SaveRaised(file, bks) == [file |-> file, backups |-> bks, raised |-> TRUE, printed |-> FALSE]

\* save_config(cfg)
save_config(cfg, file, bks, now, seed, bk, failrm, wr) ==
    LET ids == _normalize_ids_list(DictGet(cfg, "answered_ids", JList(<<>>)), seed)
    IN  IF ids.raised THEN SaveRaised(file, bks)
        ELSE _save_raw_config(
                 DictSet(DictSet(cfg, "answered_ids", IdList(ids.val)),
                         "filter_used", JBool(bool(DictGet(cfg, "filter_used", JBool(TRUE))))),
                 file, bks, now, bk, failrm, wr)

\* set_answered_ids(ids), ids a list of texts
set_answered_ids(ids, file, bks, now, seed, bk, failrm, wr) ==
    LET cfg == get_config(file, seed)
        new == _normalize_ids_list(IdList(ids), seed)
    IN  IF cfg.raised \/ new.raised THEN SaveRaised(file, bks)
        ELSE save_config(DictSet(cfg.val, "answered_ids", IdList(new.val)),
                         file, bks, now, seed, bk, failrm, wr)

\* set_filter_used(flag)
set_filter_used(flag, file, bks, now, seed, bk, failrm, wr) ==
    LET cfg == get_config(file, seed)
    IN  IF cfg.raised THEN SaveRaised(file, bks)
        ELSE save_config(DictSet(cfg.val, "filter_used", JBool(flag)),
                         file, bks, now, seed, bk, failrm, wr)

-----------------------------------------------------------------------------
(* AnsweredIdsDialog.on_add_ids: the text of the input field is split at   *)
(* the commas, the parts are stripped and the empty ones left out.         *)

RECURSIVE FirstComma(_, _)
\* the position of the first comma of s from i on, or 0
FirstComma(s, i) ==
    IF i > Len(s) THEN 0 ELSE IF s[i] = "," THEN i ELSE FirstComma(s, i + 1)

RECURSIVE split(_)
\* text.split(",")
split(s) ==
    LET i == FirstComma(s, 1)
    IN  IF i = 0 THEN <<s>>
        ELSE <<SubSeq(s, 1, i - 1)>> \o split(SubSeq(s, i + 1, Len(s)))

NotEmpty(p) == p # <<>>
NotDigits(p) == ~isdigit(p)

\* [p.strip() for p in text.split(",") if p.strip()]
Parts(text) ==
    LET raw == split(text)
    IN  SelectSeq([i \in DOMAIN raw |-> strip(raw[i])], NotEmpty)

\* what the handler leaves when it does not reach the store
AddNothing(file, bks, noid, invalid) ==
    [file |-> file, backups |-> bks, raised |-> FALSE, printed |-> FALSE,
     noid |-> noid, invalid |-> invalid, counted |-> FALSE,
     existing |-> <<>>, added |-> 0, total |-> 0]

\* what the handler leaves when an exception leaves it
AddRaised(file, bks, invalid, existing) ==
    [file |-> file, backups |-> bks, raised |-> TRUE, printed |-> FALSE,
     noid |-> FALSE, invalid |-> invalid, counted |-> FALSE,
     existing |-> existing, added |-> 0, total |-> 0]

\* on_add_ids with the input field holding text0: the file and the backups
\* afterwards, the tokens showInfo lists as invalid, whether "No ID provided."
\* is shown, and, when the closing tooltip is reached (counted), its counts
on_add_ids(text0, file, bks, now, seed, bk, failrm, wr) ==
    LET text == strip(text0)
        parts == Parts(text)
        new_ids == SelectSeq(parts, isdigit)
        invalid == SelectSeq(parts, NotDigits)
    IN  IF text = <<>> THEN AddNothing(file, bks, TRUE, <<>>)
        ELSE IF new_ids = <<>> THEN AddNothing(file, bks, FALSE, invalid)
        ELSE LET existing_ids == get_answered_ids(file, seed)
             IN  IF existing_ids.raised THEN AddRaised(file, bks, invalid, <<>>)
                 ELSE LET sv == set_answered_ids(existing_ids.val \o new_ids,
                                                 file, bks, now, seed, bk, failrm, wr)
                          final == get_answered_ids(sv.file, seed)
                      IN  IF sv.raised \/ final.raised
                          THEN AddRaised(sv.file, sv.backups, invalid, existing_ids.val)
                          ELSE [file |-> sv.file, backups |-> sv.backups,
                                raised |-> FALSE, printed |-> sv.printed,
                                noid |-> FALSE, invalid |-> invalid, counted |-> TRUE,
                                existing |-> existing_ids.val,
                                added |-> Len(final.val) - Len(existing_ids.val),
                                total |-> Len(final.val)]

-----------------------------------------------------------------------------
(* Tag strings handed to the matcher: a literal, intermediate segments     *)
(* joined by "::", and a tail.                                             *)

Segments == { <<"A">>, <<"1", "2">>, <<"b", "7">> }

DigitRuns == { <<"7", "7", "7">>, <<"4", "2">>, <<"0", "7">> }

\* tails that are no run of digits: non-numeric, partly numeric
OtherTails == { <<"a", "b", "c">>, <<"4", "2", "a", "b", "c">>, <<"a", "4", "2">> }

RECURSIVE SeqsUpTo(_, _)
\* the sequences over S of length at most n
SeqsUpTo(S, n) ==
    IF n = 0 THEN {<<>>}
    ELSE LET shorter == SeqsUpTo(S, n - 1)
         IN  shorter \union {Append(q, x) : q \in shorter, x \in S}

RECURSIVE JoinSegs(_)
\* each segment followed by "::"
JoinSegs(q) == IF Len(q) = 0 THEN <<>> ELSE Head(q) \o <<":", ":">> \o JoinSegs(Tail(q))

\* the literal of the variable-depth pattern of a category, and of its
\* fixed-suffix pattern where it has one
VarLits(c) == {STEP_PATTERNS[c][k].lit : k \in {k \in DOMAIN STEP_PATTERNS[c] : STEP_PATTERNS[c][k].segs}}
FixLits(c) == {STEP_PATTERNS[c][k].lit : k \in {k \in DOMAIN STEP_PATTERNS[c] : ~STEP_PATTERNS[c][k].segs}}

MakeTag(lit, q, tail) == lit \o JoinSegs(q) \o tail

\* long lists of segments: all of them digits, and digits among others
LongSegmentLists ==
    { [i \in 1..ManySegs |-> <<"1", "2">>],
      [i \in 1..ManySegs |-> IF i % 3 = 0 THEN <<"1", "2">> ELSE IF i % 3 = 1 THEN <<"A">> ELSE <<"b", "7">>] }

SegmentLists == SeqsUpTo(Segments, MaxSegs) \union LongSegmentLists

TagInputs ==
    { MakeTag(lit, q, tail) :
        lit \in UNION {VarLits(c) \union FixLits(c) : c \in Categories},
        q \in SegmentLists,
        tail \in DigitRuns \union OtherTails }

-----------------------------------------------------------------------------
(* extract_ids.                                                            *)

RECURSIVE join(_)
\* " ".join(tags)
join(tags) ==
    IF Len(tags) = 0 THEN <<>>
    ELSE IF Len(tags) = 1 THEN tags[1]
    ELSE tags[1] \o <<" ">> \o join(Tail(tags))

\* the cards of a collection
CardIds == 1..MaxCards

Lit(c, k) == STEP_PATTERNS[c][k].lit

\* what looking a card up gives: an exception, or the tags of its note
CardChoices ==
    { [ok |-> FALSE, tags |-> <<>>],
      [ok |-> TRUE, tags |-> <<>>],
      [ok |-> TRUE, tags |-> << MakeTag(Lit("step1", 1), <<>>, T2),
                                MakeTag(Lit("step2", 2), <<>>, T1) >>],
      [ok |-> TRUE, tags |-> << MakeTag(Lit("step1", 2), << <<"A">> >>, T10),
                                MakeTag(Lit("step1", 2), <<>>, T1) >>],
      [ok |-> TRUE, tags |-> << MakeTag(Lit("step1", 2), <<>>, T02),
                                MakeTag(Lit("step3", 1), << <<"A">>, T7 >>, T3),
                                MakeTag(Lit("step2", 1), <<>>, T2) >>] }

\* the ids of each category in the joined tags of a card, computed once
TagIds == [card \in CardChoices |-> [c \in Categories |-> CategoryIds(c, join(card.tags))]]

NoIds == [c \in Categories |-> {}]

RECURSIVE ExtractLoopAbort(_, _, _, _)
\* ExtractLoop with the try around the whole loop: the first card whose
\* lookup raises ends the batch
ExtractLoopAbort(cards, card_ids, i, acc) ==
    IF i > Len(card_ids) THEN acc
    ELSE LET card == cards[card_ids[i]]
         IN  IF ~card.ok THEN acc
             ELSE ExtractLoopAbort(cards, card_ids, i + 1,
                      [c \in Categories |-> acc[c] \union TagIds[card][c]])

RECURSIVE ExtractLoop(_, _, _, _)
\* the loop over card_ids from position i on, acc the sets s1, s2, s3 so
\* far: a card whose lookup raises is skipped
ExtractLoop(cards, card_ids, i, acc) ==
    IF i > Len(card_ids) THEN acc
    ELSE LET card == cards[card_ids[i]]
         IN  IF ~card.ok THEN ExtractLoop(cards, card_ids, i + 1, acc)
             ELSE ExtractLoop(cards, card_ids, i + 1,
                      [c \in Categories |-> acc[c] \union TagIds[card][c]])

\* NotIn keeping the answered ids instead of the others
NotInInverted(raw, answered) ==
    LET Keep(x) == x \in answered
    IN  SelectSeq(raw, Keep)

\* [x for x in raw if x not in answered]
NotIn(raw, answered) ==
    LET Keep(x) == x \notin answered
    IN  SelectSeq(raw, Keep)

\* extract_ids(col, card_ids): the raw lists, the lists returned and the
\* counts, or the exception of reading the store
extract_ids(cards, card_ids, file, seed) ==
    LET s == ExtractLoop(cards, card_ids, 1, NoIds)
        raw == [c \in Categories |-> sorted(s[c], seed)]
        flag == get_filter_used(file, seed)
        answered == get_answered_ids(file, seed)
    IN  IF flag.raised \/ (flag.val /\ answered.raised)
        THEN [raised |-> TRUE, raw |-> raw, flag |-> FALSE, ids |-> raw,
              filtered_counts |-> [c \in Categories |-> 0]]
        ELSE IF flag.val
        THEN LET step == [c \in Categories |-> NotIn(raw[c], Range(answered.val))]
             IN  [raised |-> FALSE, raw |-> raw, flag |-> TRUE, ids |-> step,
                  filtered_counts |-> [c \in Categories |-> Len(raw[c]) - Len(step[c])]]
        ELSE [raised |-> FALSE, raw |-> raw, flag |-> FALSE, ids |-> raw,
              filtered_counts |-> [c \in Categories |-> 0]]

-----------------------------------------------------------------------------
(* Inputs and initial contents.                                            *)

\* a dict with the two fields of the store
Store(ids, flag) == JDict([answered_ids |-> IdList(ids), filter_used |-> JBool(flag)])

\* contents of the field answered_ids a file may hold
AnsweredValues ==
    { IdList(<<T1, T2>>),
      IdList(<<T10, T2, T2, <<" ", "1", " ">>, T12a>>),
      IdList(<<T2, T02>>),
      IdList(<<TSup>>),
      JList(<<JNum(7), JNull>>),
      JList(<<>>),
      JNum(7), JStr(<<"1", "2">>), JNull, JBool(TRUE),
      JDict([extra |-> JNum(1)]) }

\* contents of the field filter_used a file may hold
FilterValues ==
    { JBool(TRUE), JBool(FALSE), JNull, JNum(0), JNum(1),
      JStr(<<"f", "a", "l", "s", "e">>), JStr(<<>>), JList(<<>>) }

Fields(name, values) == {<<>>} \union {[k \in {name} |-> v] : v \in values}

\* the union of functions with disjoint domains
Merge(f, g) == [k \in DOMAIN f \union DOMAIN g |-> IF k \in DOMAIN f THEN f[k] ELSE g[k]]

\* the JSON documents that are key-value documents
DictDocuments ==
    { JDict(Merge(Merge(a, f), x)) :
        a \in Fields("answered_ids", AnsweredValues),
        f \in Fields("filter_used", FilterValues),
        x \in Fields("extra", {JNum(1)}) }

\* the JSON documents that are not
OtherDocuments ==
    { JNull, JNum(0), JNum(7), JBool(TRUE), JBool(FALSE), JStr(<<"1", "2">>), JStr(<<>>),
      JList(<<>>), JList(<<JNum(1)>>) }

\* what the state file may hold when it is loaded
LoadFiles == {Missing, Corrupt} \union {Json(v) : v \in DictDocuments \union OtherDocuments}

\* what the state file may hold when the store is changed
StoreFiles ==
    { Missing, Corrupt,
      Json(Store(<<T1>>, TRUE)),
      Json(Store(<<T1, T2>>, FALSE)),
      Json(JDict([answered_ids |-> IdList(<<T10, T2, T12a>>), filter_used |-> JNum(0),
                  extra |-> JNum(1)])),
      Json(JDict([extra |-> JNum(1)])),
      Json(JList(<<JNum(1)>>)) }

\* the lists handed to set_answered_ids
IdInputs == { <<>>, <<T1>>, <<T2, T10, T1, T2>> }

\* the tokens typed between the commas of the dialog's input field
Tokens == { T1, T2, T10, T12a, <<" ">>, <<>>, TSup, <<" ", "7", " ">> }

RECURSIVE JoinComma(_)
\* ",".join(tokens)
JoinComma(q) ==
    IF Len(q) = 0 THEN <<>>
    ELSE IF Len(q) = 1 THEN q[1]
    ELSE q[1] \o <<",">> \o JoinComma(Tail(q))

TextInputs == {JoinComma(q) : q \in SeqsUpTo(Tokens, MaxTokens)}

\* what the state file may hold when ids are extracted
ExtractFiles ==
    { Missing,
      Json(Store(<<T2>>, TRUE)),
      Json(Store(<<T1, T10>>, TRUE)),
      Json(Store(<<T2>>, FALSE)),
      Json(JDict([answered_ids |-> IdList(<<T2, T02, T3>>)])),
      Json(JList(<<JNum(1)>>)) }

-----------------------------------------------------------------------------
(* The states.                                                             *)

Idle == [op |-> "none"]

\* the matcher applied to the tag string
MatchTag ==
    /\ out = Idle
    /\ tagstr # <<>>
    /\ out' = [op |-> "match", ids |-> [c \in Categories |-> CategoryIds(c, tagstr)]]
    /\ UNCHANGED <<cfgFile, backups, clock, hashseed, col, tagstr, nops>>

\* the fields every state of a specification leaves at rest
Rest == UNCHANGED <<hashseed, col, tagstr>>

\* a store operation that ended with r, under the outcomes bk, failrm, wr
Commit(op, arg, bk, failrm, wr, r) ==
    /\ cfgFile' = r.file
    /\ backups' = r.backups
    /\ nops' = nops + 1
    /\ out' = [op |-> op, arg |-> arg, pre |-> cfgFile, prebk |-> backups, now |-> clock,
               bk |-> bk, failrm |-> failrm, wr |-> wr, r |-> r]
    /\ UNCHANGED clock
    /\ Rest

\* set_answered_ids(ids)
DoSetAnsweredIds(limit, inputs, bks, wrs) ==
    /\ nops < limit
    /\ \E ids \in inputs, bk \in bks, wr \in wrs :
         \E failrm \in SUBSET RotationOf(cfgFile, backups, clock, bk) :
            Commit("set_answered_ids", ids, bk, failrm, wr,
                   set_answered_ids(ids, cfgFile, backups, clock, hashseed, bk, failrm, wr))

\* set_filter_used(flag), as AnsweredIdsDialog.on_close calls it
DoSetFilterUsed(limit, inputs, bks, wrs) ==
    /\ nops < limit
    /\ \E flag \in inputs, bk \in bks, wr \in wrs :
         \E failrm \in SUBSET RotationOf(cfgFile, backups, clock, bk) :
            Commit("set_filter_used", flag, bk, failrm, wr,
                   set_filter_used(flag, cfgFile, backups, clock, hashseed, bk, failrm, wr))

\* save_config(get_config())
DoSaveLoaded(limit, bks, wrs) ==
    /\ nops < limit
    /\ \E bk \in bks, wr \in wrs :
         \E failrm \in SUBSET RotationOf(cfgFile, backups, clock, bk) :
            LET cfg == get_config(cfgFile, hashseed)
            IN  Commit("save_loaded", cfg, bk, failrm, wr,
                       IF cfg.raised THEN SaveRaised(cfgFile, backups)
                       ELSE save_config(cfg.val, cfgFile, backups, clock, hashseed,
                                        bk, failrm, wr))

\* AnsweredIdsDialog.on_add_ids with text in the input field
DoOnAddIds(limit, inputs, bks, wrs) ==
    /\ nops < limit
    /\ \E text \in inputs, bk \in bks, wr \in wrs :
         \E failrm \in SUBSET RotationOf(cfgFile, backups, clock, bk) :
            Commit("on_add_ids", text, bk, failrm, wr,
                   on_add_ids(text, cfgFile, backups, clock, hashseed, bk, failrm, wr))

\* a second passes
Tick ==
    /\ out.op # "tick"
    /\ clock < MaxClock
    /\ clock' = clock + 1
    /\ out' = [op |-> "tick"]
    /\ UNCHANGED <<cfgFile, backups, nops>>
    /\ Rest

\* get_config(), get_answered_ids() and get_filter_used() on the file
GetConfig ==
    /\ out = Idle
    /\ out' = [op |-> "get_config", r |-> get_config(cfgFile, hashseed)]
    /\ UNCHANGED <<cfgFile, backups, clock, nops>>
    /\ Rest

GetAnsweredIds ==
    /\ out = Idle
    /\ out' = [op |-> "get_answered_ids", r |-> get_answered_ids(cfgFile, hashseed)]
    /\ UNCHANGED <<cfgFile, backups, clock, nops>>
    /\ Rest

GetFilterUsed ==
    /\ out = Idle
    /\ out' = [op |-> "get_filter_used", r |-> get_filter_used(cfgFile, hashseed)]
    /\ UNCHANGED <<cfgFile, backups, clock, nops>>
    /\ Rest

\* extract_ids(col, card_ids)
ExtractIds ==
    /\ out = Idle
    /\ \E card_ids \in SeqsUpTo(CardIds, MaxCards) :
         out' = [op |-> "extract_ids", card_ids |-> card_ids,
                 r |-> extract_ids(col, card_ids, cfgFile, hashseed)]
    /\ UNCHANGED <<cfgFile, backups, clock, nops>>
    /\ Rest

\* the initial state but for the fields a specification chooses
Quiet ==
    /\ backups = <<>>
    /\ clock = 0
    /\ nops = 0
    /\ out = Idle

InitMatch ==
    /\ tagstr \in TagInputs
    /\ cfgFile = Missing
    /\ hashseed = 0
    /\ col = <<>>
    /\ Quiet

NextMatch == MatchTag

SpecMatch == InitMatch /\ [][NextMatch]_vars

\* loading the store from any file
InitLoad ==
    /\ cfgFile \in LoadFiles
    /\ hashseed \in {0, 1}
    /\ col = <<>>
    /\ tagstr = <<>>
    /\ Quiet

NextLoad == GetConfig \/ GetAnsweredIds \/ GetFilterUsed

SpecLoad == InitLoad /\ [][NextLoad]_vars

\* extracting the ids of the cards of a collection
InitExtract ==
    /\ cfgFile \in ExtractFiles
    /\ hashseed \in {0, 1}
    /\ col \in [CardIds -> CardChoices]
    /\ tagstr = <<>>
    /\ Quiet

NextExtract == ExtractIds

SpecExtract == InitExtract /\ [][NextExtract]_vars

\* changing the store
InitStore ==
    /\ cfgFile \in StoreFiles
    /\ hashseed \in {0, 1}
    /\ col = <<>>
    /\ tagstr = <<>>
    /\ Quiet

SetAnsweredIds == DoSetAnsweredIds(MaxOps, IdInputs, BackupOutcomes, WriteOutcomes)
SetFilterUsed == DoSetFilterUsed(MaxOps, BOOLEAN, BackupOutcomes, WriteOutcomes)
SaveLoaded == DoSaveLoaded(MaxOps, BackupOutcomes, WriteOutcomes)

NextStore == SetAnsweredIds \/ SetFilterUsed \/ SaveLoaded \/ Tick

SpecStore == InitStore /\ [][NextStore]_vars

\* the dialog that adds answered ids
OnAddIds == DoOnAddIds(1, TextInputs, BackupOutcomes, WriteOutcomes)

NextAdd == OnAddIds

SpecAdd == InitStore /\ [][NextAdd]_vars

\* the rotation of the backups over many saves of an unchanged store
InitBackup ==
    /\ cfgFile = Json(Store(<<T1>>, TRUE))
    /\ hashseed = 0
    /\ col = <<>>
    /\ tagstr = <<>>
    /\ Quiet

SaveAgain == DoSetFilterUsed(MaxSaves, {TRUE}, {"ok"}, {"ok"})

NextBackup == SaveAgain \/ Tick

SpecBackup == InitBackup /\ [][NextBackup]_vars

\* what is handed to _normalize_ids_list
RawInputs == AnsweredValues \union {IdList(ids) : ids \in IdInputs}

\* _normalize_ids_list(raw)
NormalizeIds ==
    /\ out = Idle
    /\ \E raw \in RawInputs :
         out' = [op |-> "_normalize_ids_list", arg |-> raw,
                 r |-> _normalize_ids_list(raw, hashseed)]
    /\ UNCHANGED <<cfgFile, backups, clock, nops>>
    /\ Rest

\* the lists of ids the core presents: of any file, and of the cards of a
\* collection
InitLists ==
    /\ \/ cfgFile \in ExtractFiles /\ col \in [CardIds -> CardChoices]
       \/ cfgFile \in LoadFiles /\ col = [id \in CardIds |-> [ok |-> TRUE, tags |-> <<>>]]
    /\ hashseed \in {0, 1}
    /\ tagstr = <<>>
    /\ Quiet

NextLists == NormalizeIds \/ GetAnsweredIds \/ ExtractIds

SpecLists == InitLists /\ [][NextLists]_vars

\* save_config(cfg) with any dict
SaveConfig ==
    /\ nops < 1
    /\ \E cfg \in DictDocuments :
         Commit("save_config", cfg, "ok", {}, "ok",
                save_config(cfg, cfgFile, backups, clock, hashseed, "ok", {}, "ok"))

\* the filter flag on a load of any file and on a save of any dict
NextFlag == GetConfig \/ GetFilterUsed \/ SaveConfig

SpecFlag == InitLoad /\ [][NextFlag]_vars

\* the backup directory after MaxBackups saves of the store set_filter_used
\* creates, a second apart
FullDir == [n \in 0..(MaxBackups - 1) |-> Json(Store(<<>>, TRUE))]

\* the mutators on any file with no backup yet, and on a full directory
InitCycle ==
    /\ \/ cfgFile \in StoreFiles /\ backups = <<>> /\ clock = 0
       \/ cfgFile = Json(Store(<<>>, TRUE)) /\ backups = FullDir /\ clock = MaxBackups
    /\ hashseed = 0
    /\ col = <<>>
    /\ tagstr = <<>>
    /\ nops = 0
    /\ out = Idle

NextCycle == SetAnsweredIds \/ SetFilterUsed \/ Tick

SpecCycle == InitCycle /\ [][NextCycle]_vars

-----------------------------------------------------------------------------
(* Properties.                                                             *)

\* the answered ids a load of the file gives, as a set
StoredIds(file, seed) ==
    LET ids == get_answered_ids(file, seed)
    IN  IF ids.raised THEN {} ELSE Range(ids.val)

\* q lists distinct elements in the order in which r lists them
SubList(q, r) ==
    /\ \A i, j \in DOMAIN q : i < j => q[i] # q[j]
    /\ \A i, j \in DOMAIN q : i < j =>
          \E k, l \in DOMAIN r : k < l /\ r[k] = q[i] /\ r[l] = q[j]

\* C1: every result of extract_ids is, per category, the raw list without
\* exactly the stored answered ids when the flag read from the store is true
\* and the raw list itself when it is false, and filtered_counts is the
\* length of the raw list minus the length of the list returned.
C1_FilterStage ==
    (out.op = "extract_ids" /\ ~out.r.raised) =>
        LET flag == get_filter_used(cfgFile, hashseed).val
            answered == StoredIds(cfgFile, hashseed)
        IN  \A c \in Categories :
              /\ flag => /\ Range(out.r.ids[c]) = Range(out.r.raw[c]) \ answered
                         /\ SubList(out.r.ids[c], out.r.raw[c])
              /\ ~flag => out.r.ids[c] = out.r.raw[c]
              /\ out.r.filtered_counts[c] = Len(out.r.raw[c]) - Len(out.r.ids[c])

\* a result with the filter on where, in one category, the filter removed an
\* id and kept two
C1_Witness ==
    /\ out.op = "extract_ids"
    /\ ~out.r.raised
    /\ get_filter_used(cfgFile, hashseed).val
    /\ \E c \in Categories :
          /\ out.r.filtered_counts[c] = 1
          /\ Len(out.r.ids[c]) = 2

\* the ids among the tokens of a text, normalized
SuppliedIds(text) ==
    {strip(t) : t \in {u \in Range(split(text)) : IntParses(strip(u))}}

\* C2: after on_add_ids the stored answered set is the prior stored set
\* united with the supplied ids, the count reported is the final size minus
\* the prior size, and supplying only ids already stored reports 0 and
\* leaves the stored set as it was.
C2_AddMerges ==
    (out.op = "on_add_ids" /\ ~out.r.raised) =>
        LET prior == StoredIds(out.pre, hashseed)
            after == StoredIds(cfgFile, hashseed)
            supplied == SuppliedIds(out.arg)
        IN  /\ after = prior \union supplied
            /\ out.r.counted => out.r.added = Cardinality(after) - Cardinality(prior)
            /\ (out.r.counted /\ supplied \subseteq prior) => out.r.added = 0

DefaultStore == Store(<<>>, TRUE)

\* the file is missing, unparseable, no key-value document, or its
\* answered_ids is no list
BadFile(file) ==
    \/ file.k # "json"
    \/ file.v.t # "dict"
    \/ "answered_ids" \in DOMAIN file.v.d /\ file.v.d["answered_ids"].t # "list"

\* C3: a load never raises, and on a file that is missing, unparseable, no
\* key-value document or whose answered_ids is no list it returns the
\* default store: no answered id, the filter enabled.
C3_LoadNeverRaises ==
    /\ out.op \in {"get_config", "get_answered_ids", "get_filter_used"} => ~out.r.raised
    /\ (out.op = "get_config" /\ BadFile(cfgFile)) => out.r.val = DefaultStore
    /\ (out.op = "get_answered_ids" /\ BadFile(cfgFile)) => out.r.val = <<>>
    /\ (out.op = "get_filter_used" /\ BadFile(cfgFile)) => out.r.val = TRUE

\* C4: the backup directory never holds more than 10 entries, and after 12
\* saves it holds exactly 10.
C4_BackupRetention ==
    /\ Cardinality(DOMAIN backups) <= MaxBackups
    /\ nops = 12 => Cardinality(DOMAIN backups) = MaxBackups

SaveOps == {"set_answered_ids", "set_filter_used", "save_loaded"}

\* the save of the last operation reached the write
WriteReached == out.op \in SaveOps /\ ~get_config(out.pre, hashseed).raised

\* C5: save_config(get_config()) leaves the store a load gives unchanged,
\* and after a save a load gives the answered ids and the flag saved.
C5_RoundTrip ==
    /\ (out.op = "save_loaded" /\ ~out.r.raised) =>
          get_config(cfgFile, hashseed) = get_config(out.pre, hashseed)
    /\ (out.op = "set_answered_ids" /\ ~out.r.raised) =>
          /\ get_answered_ids(cfgFile, hashseed) = _normalize_ids_list(IdList(out.arg), hashseed)
          /\ get_filter_used(cfgFile, hashseed) = get_filter_used(out.pre, hashseed)
    /\ (out.op = "set_filter_used" /\ ~out.r.raised) =>
          /\ get_filter_used(cfgFile, hashseed) = Returned(out.arg)
          /\ get_answered_ids(cfgFile, hashseed) = get_answered_ids(out.pre, hashseed)

\* C6: a save whose write fails reports the failure to its caller and
\* leaves the store a load gives as it was before the save.
C6_WriteFailure ==
    (WriteReached /\ out.wr # "ok") =>
        /\ out.r.raised
        /\ get_config(cfgFile, hashseed) = get_config(out.pre, hashseed)

\* C7: on_add_ids reports every supplied token that is no run of decimal
\* digits (once stripped) as invalid, and stores none of them.
C7_InvalidReported ==
    out.op = "on_add_ids" =>
        \A t \in Range(split(out.arg)) :
            ~IntParses(strip(t)) =>
                /\ out.r.noid \/ strip(t) \in Range(out.r.invalid)
                /\ strip(t) \notin StoredIds(cfgFile, hashseed)

\* the cards of card_ids whose lookup succeeds
Resolved(cards, card_ids) == {card_ids[i] : i \in {i \in DOMAIN card_ids : cards[card_ids[i]].ok}}

\* C8: the raw lists of extract_ids hold, per category, exactly the ids of
\* the tags of the cards whose lookup succeeds, wherever the cards whose
\* lookup fails are in card_ids.
C8_FailedCardsSkipped ==
    out.op = "extract_ids" =>
        \A c \in Categories :
            /\ Range(out.r.raw[c]) =
                  UNION {TagIds[col[id]][c] : id \in Resolved(col, out.card_ids)}
            /\ Len(out.r.raw[c]) = Cardinality(Range(out.r.raw[c]))

\* card_ids starts with a card whose lookup fails, and the ids of the card
\* that follows it are extracted
C8_Witness ==
    /\ out.op = "extract_ids"
    /\ Len(out.card_ids) = 2
    /\ ~col[out.card_ids[1]].ok
    /\ col[out.card_ids[2]].ok
    /\ out.r.raw["step1"] # <<>>

C10_TrailingOnly ==
    out.op = "match" =>
        \A c \in Categories : \A lit \in VarLits(c) \union FixLits(c) :
            \A q \in SegmentLists : \A t \in OtherTails :
                tagstr = MakeTag(lit, q, t) =>
                    \A c2 \in Categories : out.ids[c2] = {}

\* q holds only runs of decimal digits, none of them twice, in ascending
\* order of their numbers
Presentable(q) ==
    /\ \A i \in DOMAIN q : IntParses(q[i]) /\ \A k \in DOMAIN q[i] : ~IsSpace(q[i][k])
    /\ \A i, j \in DOMAIN q : i < j => q[i] # q[j] /\ int(q[i]) <= int(q[j])

\* C11: every list of ids presented, the three lists extract_ids returns and
\* the list _normalize_ids_list and get_answered_ids return, holds only runs
\* of decimal digits, holds no id twice and is in ascending order of the
\* numbers, not of the texts.
C11_PresentedLists ==
    /\ (out.op \in {"_normalize_ids_list", "get_answered_ids"} /\ ~out.r.raised) =>
          Presentable(out.r.val)
    /\ (out.op = "extract_ids" /\ ~out.r.raised) =>
          \A c \in Categories : Presentable(out.r.ids[c]) /\ Presentable(out.r.raw[c])
    /\ (out.op = "_normalize_ids_list" /\ out.arg = IdList(<<T2, T10, T1, T2>>)) =>
          out.r = Returned(<<T1, T2, T10>>)

\* "2", "10", "1", "2" handed to _normalize_ids_list and presented as
\* "1", "2", "10"
C11_Witness ==
    /\ out.op = "_normalize_ids_list"
    /\ out.arg = IdList(<<T2, T10, T1, T2>>)
    /\ out.r = Returned(<<T1, T2, T10>>)

\* the flag of a dict: false only when its field filter_used is the boolean
\* false, true when the field is absent or holds anything else
FlagOf(cfg) ==
    ~(cfg.t = "dict" /\ "filter_used" \in DOMAIN cfg.d /\ cfg.d["filter_used"] = JBool(FALSE))

\* C12: get_config and get_filter_used give, and save_config writes, the
\* flag true whenever the field filter_used is absent or is no boolean, and
\* false only when it is the boolean false.
C12_FlagCoerced ==
    /\ (out.op = "get_config" /\ ~out.r.raised) =>
          out.r.val.d["filter_used"] = JBool(FlagOf(_load_raw_config(cfgFile)))
    /\ (out.op = "get_filter_used" /\ ~out.r.raised) =>
          out.r.val = FlagOf(_load_raw_config(cfgFile))
    /\ (out.op = "save_config" /\ ~out.r.raised) =>
          cfgFile.v.d["filter_used"] = JBool(FlagOf(out.arg))

Mutators == {"set_answered_ids", "set_filter_used"}

\* the entry of the backup directory with the latest name
Newest(bks) == bks[CHOOSE n \in DOMAIN bks : \A m \in DOMAIN bks : m <= n]

\* the last operation is a mutator that went through its save on a file
\* that existed
Mutated == out.op \in Mutators /\ ~out.r.raised /\ out.pre.k # "missing"

\* C13: after every set_answered_ids and set_filter_used on a state file
\* that exists, the newest entry of the backup directory holds the content
\* the file had before the call.
C13_BackupBeforeWrite ==
    Mutated => backups # <<>> /\ Newest(backups) = out.pre

\* C13, amended: after every set_answered_ids and set_filter_used on a state
\* file that exists and whose backup copy succeeded, the newest entry of the
\* backup directory is the one of this call and holds the content the file
\* had before the call.
C13_BackupWhenCopied ==
    (Mutated /\ out.bk = "ok") =>
        /\ out.now \in DOMAIN backups
        /\ \A n \in DOMAIN backups : n <= out.now
        /\ Newest(backups) = out.pre

\* a second mutation that changed the file: its backup holds the content
\* the first one wrote, next to an older backup of other content
C13_Witness ==
    /\ nops = 2
    /\ Mutated
    /\ out.bk = "ok"
    /\ out.wr = "ok"
    /\ out.pre.k = "json"
    /\ cfgFile # out.pre
    /\ Newest(backups) = out.pre
    /\ \E n \in DOMAIN backups : backups[n] # out.pre

\* the backups the rotation of the last operation tried to delete
Excess == RotationOf(out.pre, out.prebk, out.now, out.bk)

\* the file holds the normalized store the last mutator was to write
Written ==
    /\ cfgFile.k = "json"
    /\ cfgFile.v.t = "dict"
    /\ get_config(cfgFile, hashseed) = Returned(cfgFile.v)
    /\ out.op = "set_filter_used" => cfgFile.v.d["filter_used"] = JBool(out.arg)
    /\ out.op = "set_answered_ids" =>
          cfgFile.v.d["answered_ids"] = IdList(_normalize_ids_list(IdList(out.arg), hashseed).val)

\* C14: a save whose backup copy fails, or whose rotation fails to delete a
\* backup, still writes the normalized store to the state file (when the
\* write itself succeeds) and raises nothing, and every excess backup but
\* those whose deletion failed is deleted.
C14_BackupFailureNonFatal ==
    (out.op \in Mutators /\ WriteReached) =>
        /\ ~out.r.raised
        /\ (out.wr = "ok" /\ out.pre.k # "missing" /\ (out.bk # "ok" \/ out.failrm # {}))
              => Written
        /\ \A n \in Excess : n \in DOMAIN backups <=> n \in out.failrm

\* a save with two excess backups: the deletion of the oldest failed, the
\* other one was deleted and the store was written
C14_Witness ==
    /\ out.op \in Mutators
    /\ WriteReached
    /\ out.wr = "ok"
    /\ Cardinality(Excess) = 2
    /\ \E n \in Excess : /\ out.failrm = {n}
                          /\ \A m \in Excess : n <= m
                          /\ n \in DOMAIN backups
                          /\ \E k \in Excess \ {n} : k \notin DOMAIN backups
    /\ Written
    /\ cfgFile # out.pre

\* the fields of the stored dict other than the answered ids and the flag
OtherFields(file) ==
    IF file.k = "json" /\ file.v.t = "dict"
    THEN [k \in DOMAIN file.v.d \ {"answered_ids", "filter_used"} |-> file.v.d[k]]
    ELSE <<>>

\* C15: set_filter_used leaves the answered ids a load gives and every other
\* stored field as they were, and never takes an id from the stored answered
\* set; set_answered_ids leaves the flag a load gives and every other stored
\* field as they were.
C15_MutatorFrame ==
    /\ out.op = "set_filter_used" =>
          /\ get_answered_ids(cfgFile, hashseed) = get_answered_ids(out.pre, hashseed)
          /\ StoredIds(out.pre, hashseed) \subseteq StoredIds(cfgFile, hashseed)
          /\ OtherFields(cfgFile) = OtherFields(out.pre)
    /\ out.op = "set_answered_ids" =>
          /\ get_filter_used(cfgFile, hashseed) = get_filter_used(out.pre, hashseed)
          /\ OtherFields(cfgFile) = OtherFields(out.pre)

====
